---- MODULE Spec2Model ----
(***************************************************************************)
(* Signaling and room-lifecycle server of pulsify (server.js): the room    *)
(* store, the socket.io channel membership, and one action per socket      *)
(* event handler.  Every action runs its handler to completion, as Node    *)
(* runs one event callback at a time.                                       *)
(***************************************************************************)
EXTENDS Integers, Sequences, FiniteSets, TLC

\* ------------------------------------------------------------------ bounds
NumSockets == 2         \* connections the server sees during one run
MaxTime == 1            \* Date.now() readings are drawn from 0..MaxTime
IdModulus == 2          \* scaled-down 10^6 of Date.now().toString().slice(-6)
MaxEvents == 5          \* events the server processes during one run
MaxRetries == 1         \* presses of FORCE_RETRY_HANDSHAKE by one listener

\* ------------------------------------------------------------ value sets
Sockets == {"s" \o ToString(i) : i \in 1..NumSockets}
Times == 0..MaxTime
Names == {"", "Test"}   \* "" stands for every falsy name (absent, empty)

SYSTEM == "SYSTEM"
LOBBY == "lobby"

DemoRoom(id, name, url) ==
    [id |-> id, name |-> name, streamUrl |-> url, hostId |-> SYSTEM,
     listeners |-> {}, createdAt |-> 0, status |-> "active", isDemo |-> TRUE]

DEMO_ROOMS ==
    << DemoRoom("demo-nts-1", "NTS Radio 1", "https://stream-relay-geo.ntslive.net/stream"),
       DemoRoom("demo-soma-groove", "SomaFM Groove Salad", "https://ice2.somafm.com/groovesalad-128-mp3"),
       DemoRoom("demo-soma-defcon", "SomaFM DEF CON Radio", "https://ice2.somafm.com/defcon-128-mp3"),
       DemoRoom("demo-lofi", "Lofi Girl Radio", "https://play.streamafrica.net/lofiradio") >>

DemoIds == {DEMO_ROOMS[i].id : i \in 1..Len(DEMO_ROOMS)}

\* `room-${Date.now().toString().slice(-6)}`
RoomIdOf(t) == "room-" \o ToString(t % IdModulus)

\* room identifiers a client sends in join-room / leave-room: one system
\* room, every identifier create-room can allocate, and one unknown string
RoomIdInputs == {"demo-lofi", "room-none"} \cup {RoomIdOf(t) : t \in Times}

VARIABLES
    rooms,      \* the Map `rooms`, as the sequence of its values in insertion order
    conn,       \* per socket: "new" (not yet connected), "up", "down"
    chans,      \* per socket: the socket.io channels it joined (besides its own id)
    last,       \* the last event processed, its acknowledgment and its emissions
    allocated,  \* history: identifiers create-room has allocated so far
    hostGone,   \* history: identifiers of rooms destroyed by their host's disconnect
    nev,        \* number of events processed so far
    client,     \* per socket: the browser side (App and RoomView state)
    upq,        \* per socket: events sent by the client, not yet handled by the server
    downq,      \* per socket: events and acknowledgments sent to the client, not yet handled
    offered     \* history: <<host, listener>> for each offer the server has relayed

server == <<rooms, conn, chans, last, allocated, hostGone, nev>>
browser == <<client, upq, downq, offered>>
vars == <<rooms, conn, chans, last, allocated, hostGone, nev, client, upq, downq, offered>>

\* ------------------------------------------------------------ Map helpers
Range(s) == {s[i] : i \in 1..Len(s)}
Keys(rs) == {rs[i].id : i \in 1..Len(rs)}
MapHas(rs, id) == id \in Keys(rs)
MapGet(rs, id) == rs[CHOOSE i \in 1..Len(rs) : rs[i].id = id]
\* Map.set: an existing key keeps its position, a new key is appended
MapSet(rs, r) ==
    IF MapHas(rs, r.id)
    THEN [i \in 1..Len(rs) |-> IF rs[i].id = r.id THEN r ELSE rs[i]]
    ELSE Append(rs, r)
MapDelete(rs, id) == SelectSeq(rs, LAMBDA r : r.id # id)

\* room.isDemo is undefined (falsy) on user rooms
IsDemo(r) == "isDemo" \in DOMAIN r /\ r.isDemo

\* mutant: the count includes the host as well as the listeners
Snapshot_counts_host(r) ==
    [f \in (DOMAIN r \ {"listeners"}) \cup {"listenerCount"} |->
        IF f = "listenerCount" THEN Cardinality(r.listeners) + 1 ELSE r[f]]

\* mutant: the listener set stays in the snapshot next to the count
Snapshot_keeps_listeners(r) ==
    [f \in DOMAIN r \cup {"listenerCount"} |->
        IF f = "listenerCount" THEN Cardinality(r.listeners) ELSE r[f]]

\* { ...r, listenerCount: r.listeners.size, listeners: undefined } on the wire
Snapshot(r) ==
    [f \in (DOMAIN r \ {"listeners"}) \cup {"listenerCount"} |->
        IF f = "listenerCount" THEN Cardinality(r.listeners) ELSE r[f]]

RoomList(rs) == [i \in 1..Len(rs) |-> Snapshot(rs[i])]

\* io.to(ch): the connected sockets in channel ch; each socket is in the
\* channel named by its own id
InChannel(cn, ch, ch0) == {p \in Sockets : cn[p] = "up" /\ (p = ch0 \/ ch0 \in ch[p])}

\* one io.to(chan).emit(ev, body) / socket.emit(ev, body): the channel it
\* names and the sockets it reaches
Emit(ev, chan, to, body) == [ev |-> ev, chan |-> chan, to |-> to, body |-> body]

\* A handler's running state: the store, the channel membership, the
\* emissions so far and, for each emission, the store it was made from
HState(rs, ch) == [rooms |-> rs, chans |-> ch, out |-> <<>>, at |-> <<>>]

\* io.to(chan).emit(ev, body)
Send(cn, h, ev, chan, body) ==
    [h EXCEPT !.out = Append(@, Emit(ev, chan, InChannel(cn, h.chans, chan), body)),
              !.at = Append(@, h.rooms)]

\* mutant: the published list leaves the system rooms out
broadcastLobbyUpdate_user_rooms(cn, h) ==
    Send(cn, h, "room-list", LOBBY, RoomList(SelectSeq(h.rooms, LAMBDA r : ~IsDemo(r))))

\* function broadcastLobbyUpdate()
broadcastLobbyUpdate(cn, h) == Send(cn, h, "room-list", LOBBY, RoomList(h.rooms))

\* the notice of the host branch; its timestamp (Date.now()) is read by no
\* handler and is left out, as is the timestamp of the other emissions
SysDestroy == [id |-> "sys-destroy", text |-> "HOST DISCONNECTED. SIGNAL LOST.",
               system |-> TRUE, userId |-> SYSTEM]

\* the listener bookkeeping shared by the demo branch and the listener
\* branch: listeners.delete, socket.leave, user-left to the channel
listenerLeft(cn, h, p, roomId) ==
    LET room == MapGet(h.rooms, roomId)
        h1 == [h EXCEPT !.rooms = MapSet(@, [room EXCEPT !.listeners = @ \ {p}]),
                        !.chans[p] = @ \ {roomId}]
    IN  Send(cn, h1, "user-left", roomId, [userId |-> p])

\* mutant: no demo branch, and a room is dropped as soon as nobody listens
handleLeaveRoom_drops_empty(cn, h, p, roomId) ==
    IF ~MapHas(h.rooms, roomId) THEN h
    ELSE LET room == MapGet(h.rooms, roomId)
         IN  IF room.hostId = p \/ room.listeners \ {p} = {}
             THEN LET h1 == Send(cn, h, "new-message", roomId, SysDestroy)
                  IN  broadcastLobbyUpdate(cn, [h1 EXCEPT !.rooms = MapDelete(@, roomId)])
             ELSE broadcastLobbyUpdate(cn, listenerLeft(cn, h, p, roomId))

\* mutant: the host branch drops the room before it emits the notice
handleLeaveRoom_drops_first(cn, h, p, roomId) ==
    IF ~MapHas(h.rooms, roomId) THEN h
    ELSE LET room == MapGet(h.rooms, roomId)
         IN  IF IsDemo(room)
             THEN broadcastLobbyUpdate(cn, listenerLeft(cn, h, p, roomId))
             ELSE IF room.hostId = p
             THEN LET h1 == [h EXCEPT !.rooms = MapDelete(@, roomId)]
                  IN  broadcastLobbyUpdate(cn, Send(cn, h1, "new-message", roomId, SysDestroy))
             ELSE broadcastLobbyUpdate(cn, listenerLeft(cn, h, p, roomId))

\* mutant: only the destruction of a room is published to the lobby
handleLeaveRoom_quiet_listener(cn, h, p, roomId) ==
    IF ~MapHas(h.rooms, roomId) THEN h
    ELSE LET room == MapGet(h.rooms, roomId)
         IN  IF IsDemo(room)
             THEN listenerLeft(cn, h, p, roomId)
             ELSE IF room.hostId = p
             THEN LET h1 == Send(cn, h, "new-message", roomId, SysDestroy)
                  IN  broadcastLobbyUpdate(cn, [h1 EXCEPT !.rooms = MapDelete(@, roomId)])
             ELSE listenerLeft(cn, h, p, roomId)

\* mutant: the host branch drops the room without the notice
handleLeaveRoom_silent_destroy(cn, h, p, roomId) ==
    IF ~MapHas(h.rooms, roomId) THEN h
    ELSE LET room == MapGet(h.rooms, roomId)
         IN  IF IsDemo(room)
             THEN broadcastLobbyUpdate(cn, listenerLeft(cn, h, p, roomId))
             ELSE IF room.hostId = p
             THEN broadcastLobbyUpdate(cn, [h EXCEPT !.rooms = MapDelete(@, roomId)])
             ELSE broadcastLobbyUpdate(cn, listenerLeft(cn, h, p, roomId))

\* function handleLeaveRoom(socket, roomId)
handleLeaveRoom(cn, h, p, roomId) ==
    IF ~MapHas(h.rooms, roomId) THEN h
    ELSE LET room == MapGet(h.rooms, roomId)
         IN  IF IsDemo(room)
             THEN broadcastLobbyUpdate(cn, listenerLeft(cn, h, p, roomId))
             ELSE IF room.hostId = p
             THEN LET h1 == Send(cn, h, "new-message", roomId, SysDestroy)
                  IN  broadcastLobbyUpdate(cn, [h1 EXCEPT !.rooms = MapDelete(@, roomId)])
             ELSE broadcastLobbyUpdate(cn, listenerLeft(cn, h, p, roomId))

NoAck == <<>>
Event(ev, p, arg, ack, h) ==
    [ev |-> ev, from |-> p, arg |-> arg, ack |-> ack, out |-> h.out, at |-> h.at]

\* a Set has no JSON form: socket.io puts it on the wire as the empty object
EmptyObject == <<>>
WireRoom(r) == [r EXCEPT !.listeners = EmptyObject]

\* the browser side before the socket connects: no view, no room, no
\* captured stream, an empty peer table (peersRef); made lists, per target,
\* the events whose handler created a peer connection, leaked holds the
\* targets whose open connection was overwritten in the table without
\* being closed
NoView ==
    [view |-> "none", room |-> "", isHost |-> FALSE, stream |-> FALSE,
     isStreaming |-> FALSE, seen |-> FALSE, list |-> {}, asked |-> FALSE, retries |-> 0,
     peers |-> {}, made |-> [q \in Sockets |-> <<>>], leaked |-> {}]

Init ==
    /\ rooms = DEMO_ROOMS
    /\ conn = [p \in Sockets |-> "new"]
    /\ chans = [p \in Sockets |-> {}]
    /\ last = Event("init", "", "", NoAck, HState(DEMO_ROOMS, <<>>))
    /\ allocated = {}
    /\ hostGone = {}
    /\ nev = 0
    /\ client = [p \in Sockets |-> NoView]
    /\ upq = [p \in Sockets |-> <<>>]
    /\ downq = [p \in Sockets |-> <<>>]
    /\ offered = {}

\* io.on('connection'): a fresh socket, member of its own channel only
Connect(p) ==
    /\ conn[p] = "new"
    /\ conn' = [conn EXCEPT ![p] = "up"]
    /\ last' = Event("connection", p, "", NoAck, HState(rooms, chans))
    /\ UNCHANGED <<rooms, chans, allocated, hostGone>>

\* mutant: the list is sent but the socket does not join the lobby channel
JoinLobby_no_subscribe(p) ==
    /\ conn[p] = "up"
    /\ LET h == Send(conn, HState(rooms, chans), "room-list", p, RoomList(rooms))
       IN  /\ chans' = h.chans
           /\ last' = Event("join-lobby", p, "", NoAck, h)
    /\ UNCHANGED <<rooms, conn, allocated, hostGone>>

\* socket.on('join-lobby')
JoinLobby(p) ==
    /\ conn[p] = "up"
    /\ LET h == Send(conn, HState(rooms, [chans EXCEPT ![p] = @ \cup {LOBBY}]),
                     "room-list", p, RoomList(rooms))
       IN  /\ chans' = h.chans
           /\ last' = Event("join-lobby", p, "", NoAck, h)
    /\ UNCHANGED <<rooms, conn, allocated, hostGone>>

\* mutant: the lobby is updated before the room is registered
CreateRoom_early_broadcast(p, name, t) ==
    /\ conn[p] = "up"
    /\ LET roomId == RoomIdOf(t)
           newRoom == [id |-> roomId,
                       name |-> IF name = "" THEN "Signal " \o roomId ELSE name,
                       hostId |-> p, listeners |-> {}, createdAt |-> t, status |-> "active"]
           h == broadcastLobbyUpdate(conn, HState(rooms, [chans EXCEPT ![p] = @ \cup {roomId}]))
       IN  /\ rooms' = MapSet(rooms, newRoom)
           /\ chans' = h.chans
           /\ last' = Event("create-room", p, name, <<WireRoom(newRoom)>>, h)
           /\ allocated' = allocated \cup {roomId}
    /\ UNCHANGED <<conn, hostGone>>

\* mutant: the name is stored as sent, without the placeholder
CreateRoom_no_placeholder(p, name, t) ==
    /\ conn[p] = "up"
    /\ LET roomId == RoomIdOf(t)
           newRoom == [id |-> roomId, name |-> name,
                       hostId |-> p, listeners |-> {}, createdAt |-> t, status |-> "active"]
           h == broadcastLobbyUpdate(conn,
                   HState(MapSet(rooms, newRoom), [chans EXCEPT ![p] = @ \cup {roomId}]))
       IN  /\ rooms' = h.rooms
           /\ chans' = h.chans
           /\ last' = Event("create-room", p, name, <<WireRoom(newRoom)>>, h)
           /\ allocated' = allocated \cup {roomId}
    /\ UNCHANGED <<conn, hostGone>>

\* socket.on('create-room'), sent with its acknowledgment callback
CreateRoom(p, name, t) ==
    /\ conn[p] = "up"
    /\ LET roomId == RoomIdOf(t)
           newRoom == [id |-> roomId,
                       name |-> IF name = "" THEN "Signal " \o roomId ELSE name,
                       hostId |-> p, listeners |-> {}, createdAt |-> t, status |-> "active"]
           h == broadcastLobbyUpdate(conn,
                   HState(MapSet(rooms, newRoom), [chans EXCEPT ![p] = @ \cup {roomId}]))
       IN  /\ rooms' = h.rooms
           /\ chans' = h.chans
           /\ last' = Event("create-room", p, name, <<WireRoom(newRoom)>>, h)
           /\ allocated' = allocated \cup {roomId}
    /\ UNCHANGED <<conn, hostGone>>

\* mutant: the socket joins the channel before the room is looked up
JoinRoom_joins_first(p, roomId) ==
    /\ conn[p] = "up"
    /\ IF ~MapHas(rooms, roomId)
       THEN /\ chans' = [chans EXCEPT ![p] = @ \cup {roomId}]
            /\ last' = Event("join-room", p, roomId,
                             <<[success |-> FALSE, message |-> "Room not found or signal lost."]>>,
                             HState(rooms, chans'))
            /\ UNCHANGED rooms
       ELSE LET room == [MapGet(rooms, roomId) EXCEPT !.listeners = @ \cup {p}]
                h0 == HState(MapSet(rooms, room), [chans EXCEPT ![p] = @ \cup {roomId}])
                h == broadcastLobbyUpdate(conn,
                        Send(conn, h0, "user-joined", room.hostId, [userId |-> p]))
            IN  /\ rooms' = h.rooms
                /\ chans' = h.chans
                /\ last' = Event("join-room", p, roomId,
                                 <<[success |-> TRUE, room |-> Snapshot(room)]>>, h)
    /\ UNCHANGED <<conn, allocated, hostGone>>

\* mutant: user-joined goes to the room's channel instead of the host
JoinRoom_notifies_room(p, roomId) ==
    /\ conn[p] = "up"
    /\ IF ~MapHas(rooms, roomId)
       THEN /\ last' = Event("join-room", p, roomId,
                             <<[success |-> FALSE, message |-> "Room not found or signal lost."]>>,
                             HState(rooms, chans))
            /\ UNCHANGED <<rooms, chans>>
       ELSE LET room == [MapGet(rooms, roomId) EXCEPT !.listeners = @ \cup {p}]
                h0 == HState(MapSet(rooms, room), [chans EXCEPT ![p] = @ \cup {roomId}])
                h == broadcastLobbyUpdate(conn,
                        Send(conn, h0, "user-joined", roomId, [userId |-> p]))
            IN  /\ rooms' = h.rooms
                /\ chans' = h.chans
                /\ last' = Event("join-room", p, roomId,
                                 <<[success |-> TRUE, room |-> Snapshot(room)]>>, h)
    /\ UNCHANGED <<conn, allocated, hostGone>>

\* mutant: the acknowledged snapshot is taken before the listener is added
JoinRoom_stale_count(p, roomId) ==
    /\ conn[p] = "up"
    /\ IF ~MapHas(rooms, roomId)
       THEN /\ last' = Event("join-room", p, roomId,
                             <<[success |-> FALSE, message |-> "Room not found or signal lost."]>>,
                             HState(rooms, chans))
            /\ UNCHANGED <<rooms, chans>>
       ELSE LET room == [MapGet(rooms, roomId) EXCEPT !.listeners = @ \cup {p}]
                h0 == HState(MapSet(rooms, room), [chans EXCEPT ![p] = @ \cup {roomId}])
                h == broadcastLobbyUpdate(conn,
                        Send(conn, h0, "user-joined", room.hostId, [userId |-> p]))
            IN  /\ rooms' = h.rooms
                /\ chans' = h.chans
                /\ last' = Event("join-room", p, roomId,
                                 <<[success |-> TRUE, room |-> Snapshot(MapGet(rooms, roomId))]>>, h)
    /\ UNCHANGED <<conn, allocated, hostGone>>

\* socket.on('join-room'), sent with its acknowledgment callback
JoinRoom(p, roomId) ==
    /\ conn[p] = "up"
    /\ IF ~MapHas(rooms, roomId)
       THEN /\ last' = Event("join-room", p, roomId,
                             <<[success |-> FALSE, message |-> "Room not found or signal lost."]>>,
                             HState(rooms, chans))
            /\ UNCHANGED <<rooms, chans>>
       ELSE LET room == [MapGet(rooms, roomId) EXCEPT !.listeners = @ \cup {p}]
                h0 == HState(MapSet(rooms, room), [chans EXCEPT ![p] = @ \cup {roomId}])
                h == broadcastLobbyUpdate(conn,
                        Send(conn, h0, "user-joined", room.hostId, [userId |-> p]))
            IN  /\ rooms' = h.rooms
                /\ chans' = h.chans
                /\ last' = Event("join-room", p, roomId,
                                 <<[success |-> TRUE, room |-> Snapshot(room)]>>, h)
    /\ UNCHANGED <<conn, allocated, hostGone>>

\* socket.on('leave-room')
LeaveRoom(p, roomId) ==
    /\ conn[p] = "up"
    /\ LET h == handleLeaveRoom(conn, HState(rooms, chans), p, roomId)
       IN  /\ rooms' = h.rooms
           /\ chans' = h.chans
           /\ last' = Event("leave-room", p, roomId, NoAck, h)
    /\ UNCHANGED <<conn, allocated, hostGone>>

\* mutant: the scan only looks for the socket among the listeners
RECURSIVE disconnectScan_listeners_only(_, _, _, _)
disconnectScan_listeners_only(cn, h, p, ids) ==
    IF ids = <<>> THEN h
    ELSE LET roomId == Head(ids)
             hit == MapHas(h.rooms, roomId) /\ p \in MapGet(h.rooms, roomId).listeners
         IN  disconnectScan_listeners_only(cn,
                IF hit THEN handleLeaveRoom(cn, h, p, roomId) ELSE h, p, Tail(ids))

\* mutant: the scan leaves every room, whether the socket is in it or not
RECURSIVE disconnectScan_every_room(_, _, _, _)
disconnectScan_every_room(cn, h, p, ids) ==
    IF ids = <<>> THEN h
    ELSE disconnectScan_every_room(cn, handleLeaveRoom(cn, h, p, Head(ids)), p, Tail(ids))

\* mutant: a visit that deletes its entry makes the scan skip the next one
RECURSIVE disconnectScan_skips_after_delete(_, _, _, _)
disconnectScan_skips_after_delete(cn, h, p, ids) ==
    IF ids = <<>> THEN h
    ELSE LET roomId == Head(ids)
             hit == /\ MapHas(h.rooms, roomId)
                    /\ LET room == MapGet(h.rooms, roomId)
                       IN  room.hostId = p \/ p \in room.listeners
             h1 == IF hit THEN handleLeaveRoom(cn, h, p, roomId) ELSE h
             rest == IF Len(h1.rooms) < Len(h.rooms) /\ Tail(ids) # <<>>
                     THEN Tail(Tail(ids)) ELSE Tail(ids)
         IN  disconnectScan_skips_after_delete(cn, h1, p, rest)

\* rooms.forEach of the disconnect handler: the entries are visited in
\* insertion order; a visit deletes at most the entry it is on
RECURSIVE disconnectScan(_, _, _, _)
disconnectScan(cn, h, p, ids) ==
    IF ids = <<>> THEN h
    ELSE LET roomId == Head(ids)
             hit == /\ MapHas(h.rooms, roomId)
                    /\ LET room == MapGet(h.rooms, roomId)
                       IN  room.hostId = p \/ p \in room.listeners
         IN  disconnectScan(cn, IF hit THEN handleLeaveRoom(cn, h, p, roomId) ELSE h, p, Tail(ids))

\* socket.on('disconnect'): socket.io has already removed the socket from
\* every channel when the handler runs
Disconnect(p) ==
    /\ conn[p] = "up"
    /\ LET cn == [conn EXCEPT ![p] = "down"]
           h == disconnectScan(cn, HState(rooms, [chans EXCEPT ![p] = {}]), p,
                               [i \in 1..Len(rooms) |-> rooms[i].id])
       IN  /\ conn' = cn
           /\ rooms' = h.rooms
           /\ chans' = h.chans
           /\ last' = Event("disconnect", p, "", NoAck, h)
           /\ hostGone' = hostGone \cup {r.id : r \in {x \in Range(rooms) : x.hostId = p}}
    /\ UNCHANGED allocated

\* one more event is taken off the wire; in the specifications of the
\* server alone the events come from outside and the browser side is idle
Step == nev < MaxEvents /\ nev' = nev + 1 /\ UNCHANGED browser

Next ==
    \/ \E p \in Sockets : Step /\ Connect(p)
    \/ \E p \in Sockets : Step /\ JoinLobby(p)
    \/ \E p \in Sockets, name \in Names, t \in Times : Step /\ CreateRoom(p, name, t)
    \/ \E p \in Sockets, roomId \in RoomIdInputs : Step /\ JoinRoom(p, roomId)
    \/ \E p \in Sockets, roomId \in RoomIdInputs : Step /\ LeaveRoom(p, roomId)
    \/ \E p \in Sockets : Step /\ Disconnect(p)

Spec == Init /\ [][Next]_vars

\* ------------------------------------------------- signaling and chat relay
SignalTypes == {"offer", "candidate"}
\* targetUserId values: every socket id, the lobby channel, a room id and an
\* id nobody has
SignalTargets == Sockets \cup {LOBBY, RoomIdOf(0), "nobody"}
\* the negotiation payload is opaque; a forged one carries a senderId of its own
Payload(forged) == IF forged THEN [sdp |-> "v=0", senderId |-> "forged"] ELSE [sdp |-> "v=0"]
\* the webrtc-signal envelope { type, payload, targetUserId }, as sent or
\* with a senderId field added by the sender
Envelope(type, target, forged) ==
    IF forged
    THEN [type |-> type, payload |-> Payload(TRUE), targetUserId |-> target, senderId |-> "forged"]
    ELSE [type |-> type, payload |-> Payload(FALSE), targetUserId |-> target]
Envelopes == {Envelope(ty, tg, fg) : ty \in SignalTypes, tg \in SignalTargets, fg \in BOOLEAN}

\* mutant: the envelope is forwarded as sent, and the sender's id fills in
\* for a missing senderId only
WebrtcSignal_spreads_envelope(p, msg) ==
    /\ conn[p] = "up"
    /\ LET h == Send(conn, HState(rooms, chans), "webrtc-signal", msg.targetUserId,
                     [type |-> msg.type, payload |-> msg.payload,
                      senderId |-> IF "senderId" \in DOMAIN msg THEN msg.senderId ELSE p])
       IN  last' = Event("webrtc-signal", p, msg, NoAck, h)
    /\ UNCHANGED <<rooms, conn, chans, allocated, hostGone>>

\* socket.on('webrtc-signal')
WebrtcSignal(p, msg) ==
    /\ conn[p] = "up"
    /\ LET h == Send(conn, HState(rooms, chans), "webrtc-signal", msg.targetUserId,
                     [type |-> msg.type, payload |-> msg.payload, senderId |-> p])
       IN  last' = Event("webrtc-signal", p, msg, NoAck, h)
    /\ UNCHANGED <<rooms, conn, chans, allocated, hostGone>>

Texts == {"hi"}
\* roomId values of send-message: the room ids of this specification and an
\* unknown one
ChatRoomIds == {RoomIdOf(0), "demo-lofi", "room-none"}
ChatInputs == [roomId : ChatRoomIds, text : Texts]

\* the message built by the send-message handler at Date.now() = t
ChatMessage(p, text, t) ==
    [id |-> p \o "-" \o ToString(t), userId |-> p, text |-> text, timestamp |-> t]

\* mutant: socket.to(roomId), which leaves the sender out
SendMessage_excludes_sender(p, msg, t) ==
    /\ conn[p] = "up"
    /\ LET h == HState(rooms, chans)
       IN  last' = Event("send-message", p, msg, NoAck,
                         [h EXCEPT !.out = <<Emit("new-message", msg.roomId,
                                                  InChannel(conn, chans, msg.roomId) \ {p},
                                                  ChatMessage(p, msg.text, t))>>,
                                   !.at = <<rooms>>])
    /\ UNCHANGED <<rooms, conn, chans, allocated, hostGone>>

\* mutant: the chat handler republishes the room list to the lobby
SendMessage_republishes(p, msg, t) ==
    /\ conn[p] = "up"
    /\ LET h == broadcastLobbyUpdate(conn,
                   Send(conn, HState(rooms, chans), "new-message", msg.roomId,
                        ChatMessage(p, msg.text, t)))
       IN  last' = Event("send-message", p, msg, NoAck, h)
    /\ UNCHANGED <<rooms, conn, chans, allocated, hostGone>>

\* socket.on('send-message')
SendMessage(p, msg, t) ==
    /\ conn[p] = "up"
    /\ LET h == Send(conn, HState(rooms, chans), "new-message", msg.roomId,
                     ChatMessage(p, msg.text, t))
       IN  last' = Event("send-message", p, msg, NoAck, h)
    /\ UNCHANGED <<rooms, conn, chans, allocated, hostGone>>

\* room identifiers of join-room / leave-room in the relay specification
RelayRoomIds == {RoomIdOf(0), "demo-lofi"}

\* the room handlers with one room name and one clock reading, so that one
\* user room id is in play, and the relay handlers
NextRelay ==
    \/ \E p \in Sockets : Step /\ Connect(p)
    \/ \E p \in Sockets : Step /\ JoinLobby(p)
    \/ \E p \in Sockets : Step /\ CreateRoom(p, "Test", 0)
    \/ \E p \in Sockets, roomId \in RelayRoomIds : Step /\ JoinRoom(p, roomId)
    \/ \E p \in Sockets, roomId \in RelayRoomIds : Step /\ LeaveRoom(p, roomId)
    \/ \E p \in Sockets : Step /\ Disconnect(p)
    \/ \E p \in Sockets, msg \in Envelopes : Step /\ WebrtcSignal(p, msg)
    \/ \E p \in Sockets, msg \in ChatInputs, t \in Times : Step /\ SendMessage(p, msg, t)

SpecRelay == Init /\ [][NextRelay]_vars

\* --------------------------------------------------------- stream handshake
\* an emit without arguments
NoBody == <<>>

\* socket.to(chan).emit(ev, body): the channel without the sending socket
SendOthers(cn, h, p, ev, chan, body) ==
    [h EXCEPT !.out = Append(@, Emit(ev, chan, InChannel(cn, h.chans, chan) \ {p}, body)),
              !.at = Append(@, h.rooms)]

\* roomId values of the handshake events: the user room id of this
\* specification, a system room, an unknown id and the lobby channel
HandshakeRoomIds == {RoomIdOf(0), "demo-lofi", "room-none", LOBBY}
RoomPayloads == [roomId : HandshakeRoomIds]

\* requesterId values of stream-status-reply: every socket id, the lobby
\* channel and an id nobody has
ReplyTargets == Sockets \cup {LOBBY, "nobody"}
StatusReplies == [requesterId : ReplyTargets, isStreaming : BOOLEAN]

\* socket.on('host-start-stream')
HostStartStream(p, msg) ==
    /\ conn[p] = "up"
    /\ LET h == SendOthers(conn, HState(rooms, chans), p, "host-start-stream", msg.roomId, NoBody)
       IN  last' = Event("host-start-stream", p, msg, NoAck, h)
    /\ UNCHANGED <<rooms, conn, chans, allocated, hostGone>>

\* mutant: the request goes to the room's channel instead of the host
ListenerRequestConnection_to_room(p, msg) ==
    /\ conn[p] = "up"
    /\ LET h0 == HState(rooms, chans)
           h == IF MapHas(rooms, msg.roomId) /\ MapGet(rooms, msg.roomId).hostId # ""
                THEN Send(conn, h0, "listener-request-connection", msg.roomId,
                          [listenerId |-> p])
                ELSE h0
       IN  last' = Event("listener-request-connection", p, msg, NoAck, h)
    /\ UNCHANGED <<rooms, conn, chans, allocated, hostGone>>

\* socket.on('listener-request-connection')
ListenerRequestConnection(p, msg) ==
    /\ conn[p] = "up"
    /\ LET h0 == HState(rooms, chans)
           h == IF MapHas(rooms, msg.roomId) /\ MapGet(rooms, msg.roomId).hostId # ""
                THEN Send(conn, h0, "listener-request-connection",
                          MapGet(rooms, msg.roomId).hostId, [listenerId |-> p])
                ELSE h0
       IN  last' = Event("listener-request-connection", p, msg, NoAck, h)
    /\ UNCHANGED <<rooms, conn, chans, allocated, hostGone>>

\* socket.on('check-stream-status')
CheckStreamStatus(p, msg) ==
    /\ conn[p] = "up"
    /\ LET h0 == HState(rooms, chans)
           h == IF MapHas(rooms, msg.roomId) /\ MapGet(rooms, msg.roomId).hostId # ""
                THEN Send(conn, h0, "check-stream-status",
                          MapGet(rooms, msg.roomId).hostId, [requesterId |-> p])
                ELSE h0
       IN  last' = Event("check-stream-status", p, msg, NoAck, h)
    /\ UNCHANGED <<rooms, conn, chans, allocated, hostGone>>

\* mutant: the reply is passed on whatever isStreaming says
StreamStatusReply_ignores_flag(p, msg) ==
    /\ conn[p] = "up"
    /\ LET h == Send(conn, HState(rooms, chans), "host-start-stream", msg.requesterId, NoBody)
       IN  last' = Event("stream-status-reply", p, msg, NoAck, h)
    /\ UNCHANGED <<rooms, conn, chans, allocated, hostGone>>

\* socket.on('stream-status-reply')
StreamStatusReply(p, msg) ==
    /\ conn[p] = "up"
    /\ LET h0 == HState(rooms, chans)
           h == IF msg.isStreaming
                THEN Send(conn, h0, "host-start-stream", msg.requesterId, NoBody)
                ELSE h0
       IN  last' = Event("stream-status-reply", p, msg, NoAck, h)
    /\ UNCHANGED <<rooms, conn, chans, allocated, hostGone>>

\* the room handlers as in the relay specification, and the handshake handlers
NextHandshake ==
    \/ \E p \in Sockets : Step /\ Connect(p)
    \/ \E p \in Sockets : Step /\ JoinLobby(p)
    \/ \E p \in Sockets : Step /\ CreateRoom(p, "Test", 0)
    \/ \E p \in Sockets, roomId \in RelayRoomIds : Step /\ JoinRoom(p, roomId)
    \/ \E p \in Sockets, roomId \in RelayRoomIds : Step /\ LeaveRoom(p, roomId)
    \/ \E p \in Sockets : Step /\ Disconnect(p)
    \/ \E p \in Sockets, msg \in RoomPayloads : Step /\ HostStartStream(p, msg)
    \/ \E p \in Sockets, msg \in RoomPayloads : Step /\ ListenerRequestConnection(p, msg)
    \/ \E p \in Sockets, msg \in RoomPayloads : Step /\ CheckStreamStatus(p, msg)
    \/ \E p \in Sockets, msg \in StatusReplies : Step /\ StreamStatusReply(p, msg)

SpecHandshake == Init /\ [][NextHandshake]_vars

\* the room handlers as in the relay specification, and every handler that
\* only forwards: signaling, handshake and chat
NextForward ==
    \/ \E p \in Sockets : Step /\ Connect(p)
    \/ \E p \in Sockets : Step /\ JoinLobby(p)
    \/ \E p \in Sockets : Step /\ CreateRoom(p, "Test", 0)
    \/ \E p \in Sockets, roomId \in RelayRoomIds : Step /\ JoinRoom(p, roomId)
    \/ \E p \in Sockets, roomId \in RelayRoomIds : Step /\ LeaveRoom(p, roomId)
    \/ \E p \in Sockets : Step /\ Disconnect(p)
    \/ \E p \in Sockets, msg \in Envelopes : Step /\ WebrtcSignal(p, msg)
    \/ \E p \in Sockets, msg \in ChatInputs, t \in Times : Step /\ SendMessage(p, msg, t)
    \/ \E p \in Sockets, msg \in RoomPayloads : Step /\ HostStartStream(p, msg)
    \/ \E p \in Sockets, msg \in RoomPayloads : Step /\ ListenerRequestConnection(p, msg)
    \/ \E p \in Sockets, msg \in RoomPayloads : Step /\ CheckStreamStatus(p, msg)
    \/ \E p \in Sockets, msg \in StatusReplies : Step /\ StreamStatusReply(p, msg)

SpecForward == Init /\ [][NextForward]_vars

\* --------------------------------------------------------- malformed events
\* An event that arrives without its acknowledgment callback or without its
\* payload object.  The handler runs until it calls the missing callback or
\* destructures the missing payload; the TypeError thrown there is caught
\* nowhere, so the handler stops at that statement and the process exits.
Thrown(e, wire) ==
    [f \in DOMAIN e \cup {"wire", "fault"} |->
        IF f = "wire" THEN wire ELSE IF f = "fault" THEN "TypeError" ELSE e[f]]

\* the server process is still running
Alive == "fault" \notin DOMAIN last

\* socket.on('create-room') with callback undefined: rooms.set and
\* socket.join are done when callback(newRoom) throws
CreateRoomNoCallback(p, name, t) ==
    /\ conn[p] = "up"
    /\ LET roomId == RoomIdOf(t)
           newRoom == [id |-> roomId,
                       name |-> IF name = "" THEN "Signal " \o roomId ELSE name,
                       hostId |-> p, listeners |-> {}, createdAt |-> t, status |-> "active"]
           h == HState(MapSet(rooms, newRoom), [chans EXCEPT ![p] = @ \cup {roomId}])
       IN  /\ rooms' = h.rooms
           /\ chans' = h.chans
           /\ last' = Thrown(Event("create-room", p, name, NoAck, h), "no-callback")
           /\ allocated' = allocated \cup {roomId}
    /\ UNCHANGED <<conn, hostGone>>

\* socket.on('join-room') with callback undefined: on an unknown room the
\* handler throws at once; on a room of the store socket.join, listeners.add
\* and the user-joined emit are done when callback(...) throws
JoinRoomNoCallback(p, roomId) ==
    /\ conn[p] = "up"
    /\ IF ~MapHas(rooms, roomId)
       THEN /\ last' = Thrown(Event("join-room", p, roomId, NoAck, HState(rooms, chans)),
                              "no-callback")
            /\ UNCHANGED <<rooms, chans>>
       ELSE LET room == [MapGet(rooms, roomId) EXCEPT !.listeners = @ \cup {p}]
                h0 == HState(MapSet(rooms, room), [chans EXCEPT ![p] = @ \cup {roomId}])
                h == Send(conn, h0, "user-joined", room.hostId, [userId |-> p])
            IN  /\ rooms' = h.rooms
                /\ chans' = h.chans
                /\ last' = Thrown(Event("join-room", p, roomId, NoAck, h), "no-callback")
    /\ UNCHANGED <<conn, allocated, hostGone>>

\* the handlers that destructure their first argument
PayloadEvents == {"webrtc-signal", "host-start-stream", "listener-request-connection",
                  "check-stream-status", "stream-status-reply", "send-message"}

\* one of them with the payload undefined: the parameter destructuring
\* throws before the first statement of the handler
NoPayload(p, ev) ==
    /\ conn[p] = "up"
    /\ last' = Thrown(Event(ev, p, "", NoAck, HState(rooms, chans)), "no-payload")
    /\ UNCHANGED <<rooms, conn, chans, allocated, hostGone>>

\* one more event is taken off the wire by a running server
StepAlive == Step /\ Alive

NextMalformed ==
    \/ \E p \in Sockets : StepAlive /\ Connect(p)
    \/ \E p \in Sockets : StepAlive /\ JoinLobby(p)
    \/ \E p \in Sockets : StepAlive /\ CreateRoom(p, "Test", 0)
    \/ \E p \in Sockets, roomId \in RelayRoomIds : StepAlive /\ JoinRoom(p, roomId)
    \/ \E p \in Sockets, roomId \in RelayRoomIds : StepAlive /\ LeaveRoom(p, roomId)
    \/ \E p \in Sockets : StepAlive /\ Disconnect(p)
    \/ \E p \in Sockets, name \in Names : StepAlive /\ CreateRoomNoCallback(p, name, 0)
    \/ \E p \in Sockets, roomId \in RoomIdInputs : StepAlive /\ JoinRoomNoCallback(p, roomId)
    \/ \E p \in Sockets, ev \in PayloadEvents : StepAlive /\ NoPayload(p, ev)

SpecMalformed == Init /\ [][NextMalformed]_vars

\* ------------------------------------------------- host and listener clients
\* One host and one listener, each with its browser side (App.tsx and
\* RoomView.tsx), talking to the server over their sockets.  A socket carries
\* the events of each direction in order.
Host == "s1"
Listener == "s2"
Roles == {Host, Listener}

Up(ev, arg) == [ev |-> ev, arg |-> arg]
Down(ev, body) == [ev |-> ev, body |-> body]

\* the ways startStream / handleFileUpload end with a captured stream:
\* display capture, an uploaded file, or the microphone fallback
StreamPaths == {"display", "file", "mic"}

\* what the last handler sent to socket q, in order; the acknowledgment of p's
\* create-room or join-room comes before the lobby broadcast
Deliveries(e, p, q) ==
    LET mine == SelectSeq(e.out, LAMBDA x : q \in x.to)
        pre == SelectSeq(mine, LAMBDA x : x.ev # "room-list")
        post == SelectSeq(mine, LAMBDA x : x.ev = "room-list")
        ack == IF q = p /\ e.ack # <<>> THEN <<Down("ack-" \o e.ev, e.ack[1])>> ELSE <<>>
    IN  [i \in 1..Len(pre) |-> Down(pre[i].ev, pre[i].body)] \o ack \o
        [i \in 1..Len(post) |-> Down(post[i].ev, post[i].body)]

\* the offers among the last handler's emissions, as <<sender, receiver>>
Offers(e, p) ==
    {<<p, q>> : q \in UNION {e.out[k].to :
                    k \in {j \in DOMAIN e.out : /\ e.out[j].ev = "webrtc-signal"
                                                /\ e.out[j].body.type = "offer"}}}

\* the server handler of the event m sent by p
Dispatch(p, m) ==
    \/ m.ev = "join-lobby" /\ JoinLobby(p)
    \/ m.ev = "create-room" /\ \E t \in Times : CreateRoom(p, m.arg, t)
    \/ m.ev = "join-room" /\ JoinRoom(p, m.arg)
    \/ m.ev = "host-start-stream" /\ HostStartStream(p, m.arg)
    \/ m.ev = "listener-request-connection" /\ ListenerRequestConnection(p, m.arg)
    \/ m.ev = "check-stream-status" /\ CheckStreamStatus(p, m.arg)
    \/ m.ev = "stream-status-reply" /\ StreamStatusReply(p, m.arg)
    \/ m.ev = "webrtc-signal" /\ WebrtcSignal(p, m.arg)

\* the server takes the next event of socket p and runs its handler
Serve(p) ==
    /\ upq[p] # <<>>
    /\ Dispatch(p, Head(upq[p]))
    /\ nev' = nev + 1
    /\ upq' = [upq EXCEPT ![p] = Tail(@)]
    /\ downq' = [q \in Sockets |-> downq[q] \o Deliveries(last', p, q)]
    /\ offered' = offered \cup Offers(last', p)
    /\ UNCHANGED client

\* newSocket.on('connect'): the App asks for the room list
Open(p) ==
    /\ Connect(p)
    /\ nev' = nev + 1
    /\ client' = [client EXCEPT ![p].view = "lobby"]
    /\ upq' = [upq EXCEPT ![p] = Append(@, Up("join-lobby", ""))]
    /\ UNCHANGED <<downq, offered>>

\* handleCreateRoom, once
UserCreate(p) ==
    /\ client[p].view = "lobby" /\ ~client[p].asked
    /\ client' = [client EXCEPT ![p].asked = TRUE]
    /\ upq' = [upq EXCEPT ![p] = Append(@, Up("create-room", "Test"))]
    /\ UNCHANGED <<server, downq, offered>>

\* handleJoinRoom on a user room of the lobby view, once
UserJoin(p, roomId) ==
    /\ client[p].view = "lobby" /\ ~client[p].asked
    /\ roomId \in client[p].list
    /\ client' = [client EXCEPT ![p].asked = TRUE]
    /\ upq' = [upq EXCEPT ![p] = Append(@, Up("join-room", roomId))]
    /\ UNCHANGED <<server, downq, offered>>

\* the 500 ms timer of the acknowledgment fires: RoomView mounts, registers
\* its handlers and, for a listener, emits check-stream-status
Mount(p) ==
    /\ client[p].view = "wait"
    /\ client' = [client EXCEPT ![p].view = "room", ![p].seen = client[p].isStreaming]
    /\ upq' = [upq EXCEPT ![p] =
                 IF client[p].isHost THEN @
                 ELSE Append(@, Up("check-stream-status", [roomId |-> client[p].room]))]
    /\ UNCHANGED <<server, downq, offered>>

\* startStream / handleFileUpload ending with a captured stream: the
\* microphone fallback returns before the host-start-stream emit
StartStream(p, path) ==
    /\ client[p].view = "room" /\ client[p].isHost /\ ~client[p].stream
    /\ client' = [client EXCEPT ![p].stream = TRUE, ![p].isStreaming = TRUE]
    /\ upq' = [upq EXCEPT ![p] =
                 IF path = "mic" THEN @
                 ELSE Append(@, Up("host-start-stream", [roomId |-> client[p].room]))]
    /\ UNCHANGED <<server, downq, offered>>

\* the re-render after setIsStreaming: the handlers effect runs again and
\* its check-stream-status handler now closes over the new isStreaming
Render(p) ==
    /\ client[p].view = "room" /\ client[p].seen # client[p].isStreaming
    /\ client' = [client EXCEPT ![p].seen = client[p].isStreaming]
    /\ UNCHANGED <<server, upq, downq, offered>>

\* the FORCE_RETRY_HANDSHAKE button of a listener that plays nothing yet
Retry(p) ==
    /\ client[p].view = "room" /\ ~client[p].isHost /\ ~client[p].isStreaming
    /\ client[p].retries < MaxRetries
    /\ client' = [client EXCEPT ![p].retries = @ + 1]
    /\ upq' = [upq EXCEPT ![p] =
                 Append(@, Up("listener-request-connection", [roomId |-> client[p].room]))]
    /\ UNCHANGED <<server, downq, offered>>

\* createPeerConnection(targetUserId): a new RTCPeerConnection is stored
\* under the target, over whatever the table holds there
createPeerConnection(c, targetUserId, ev) ==
    [c EXCEPT !.made[targetUserId] = Append(@, ev),
              !.leaked = IF targetUserId \in c.peers THEN @ \cup {targetUserId} ELSE @,
              !.peers = @ \cup {targetUserId}]

\* handleUserJoined({ userId }): a host with a captured stream creates a
\* peer connection and sends the offer
handleUserJoined(c, userId, ev) ==
    IF c.isHost /\ c.stream
    THEN [c |-> createPeerConnection(c, userId, ev),
          up |-> <<Up("webrtc-signal", [type |-> "offer", payload |-> Payload(FALSE),
                                        targetUserId |-> userId])>>]
    ELSE [c |-> c, up |-> <<>>]

\* handleSignal({ type, payload, senderId }): a peer connection is created
\* for a sender that has none; an offer is answered
handleSignal(c, msg) ==
    [c |-> IF msg.senderId \in c.peers THEN c ELSE createPeerConnection(c, msg.senderId, "webrtc-signal"),
     up |-> IF msg.type = "offer"
            THEN <<Up("webrtc-signal", [type |-> "answer", payload |-> Payload(FALSE),
                                        targetUserId |-> msg.senderId])>>
            ELSE <<>>]

\* what the client's handler of the event m does: the new client state and
\* the events it emits.  An event with no handler registered is dropped.
OnEvent(c, m) ==
    IF m.ev = "room-list"
    THEN [c |-> [c EXCEPT !.list = {m.body[i].id : i \in DOMAIN m.body} \ DemoIds],
          up |-> <<>>]
    ELSE IF m.ev = "ack-create-room"
    THEN [c |-> [c EXCEPT !.view = "wait", !.room = m.body.id, !.isHost = TRUE], up |-> <<>>]
    ELSE IF m.ev = "ack-join-room"
    THEN [c |-> IF m.body.success
                THEN [c EXCEPT !.view = "wait", !.room = m.body.room.id, !.isHost = FALSE]
                ELSE c,
          up |-> <<>>]
    ELSE IF c.view # "room"
    THEN [c |-> c, up |-> <<>>]
    ELSE IF m.ev = "user-joined"
    THEN handleUserJoined(c, m.body.userId, m.ev)
    ELSE IF m.ev = "listener-request-connection"
    THEN handleUserJoined(c, m.body.listenerId, m.ev)
    ELSE IF m.ev = "check-stream-status"
    THEN [c |-> c,
          up |-> IF c.seen
                 THEN <<Up("stream-status-reply",
                           [requesterId |-> m.body.requesterId, isStreaming |-> TRUE])>>
                 ELSE <<>>]
    ELSE IF m.ev = "host-start-stream"
    THEN [c |-> c,
          up |-> IF ~c.isHost
                 THEN <<Up("listener-request-connection", [roomId |-> c.room])>>
                 ELSE <<>>]
    ELSE IF m.ev = "webrtc-signal"
    THEN handleSignal(c, m.body)
    ELSE [c |-> c, up |-> <<>>]

\* the client of socket p handles the next event sent to it
Deliver(p) ==
    /\ downq[p] # <<>>
    /\ LET r == OnEvent(client[p], Head(downq[p]))
       IN  /\ client' = [client EXCEPT ![p] = r.c]
           /\ upq' = [upq EXCEPT ![p] = @ \o r.up]
    /\ downq' = [downq EXCEPT ![p] = Tail(@)]
    /\ UNCHANGED <<server, offered>>

NextClient ==
    \/ \E p \in Roles : Open(p)
    \/ UserCreate(Host)
    \/ \E roomId \in {RoomIdOf(t) : t \in Times} : UserJoin(Listener, roomId)
    \/ \E p \in Roles : Mount(p)
    \/ \E path \in StreamPaths : StartStream(Host, path)
    \/ \E p \in Roles : Render(p)
    \/ Retry(Listener)
    \/ \E p \in Roles : Serve(p)
    \/ \E p \in Roles : Deliver(p)

\* the server handles every event it has received, a client every event
\* sent to it; the mount timer fires and a pending re-render is done
FairClient ==
    \A p \in Roles :
        /\ WF_vars(Serve(p))
        /\ WF_vars(Deliver(p))
        /\ WF_vars(Mount(p))
        /\ WF_vars(Render(p))

SpecClient == Init /\ [][NextClient]_vars /\ FairClient

\* ================================================================ claims
Emissions == DOMAIN last.out
IsNotice(e) == e.ev = "new-message" /\ e.body = SysDestroy
LobbySubscribers == {q \in Sockets : conn[q] = "up" /\ LOBBY \in chans[q]}
UserRooms(rs) == {r \in Range(rs) : ~IsDemo(r)}

\* C1: every listenerCount the server reports, in a join-room
\* acknowledgment or in a room-list, is the size of that room's listener set
\* in the store the snapshot was taken from.
C1_CountIsSetSize ==
    /\ \A k \in Emissions :
          last.out[k].ev = "room-list" =>
             /\ Len(last.out[k].body) = Len(last.at[k])
             /\ \A i \in DOMAIN last.out[k].body :
                   /\ last.out[k].body[i].id = last.at[k][i].id
                   /\ last.out[k].body[i].listenerCount = Cardinality(last.at[k][i].listeners)
    /\ (last.ev = "join-room" /\ last.ack[1].success) =>
          last.ack[1].room.listenerCount = Cardinality(MapGet(rooms, last.arg).listeners)

\* a join acknowledged with a count of two, and a room-list showing it
C1_Witness ==
    /\ last.ev = "join-room" /\ last.ack[1].success
    /\ last.ack[1].room.listenerCount = 2
    /\ \E k \in Emissions : last.out[k].ev = "room-list" /\ last.out[k].to # {}

\* C2: the host of every room in the store is the SYSTEM sentinel or a
\* currently connected participant.
C2_HostConnected ==
    \A r \in Range(rooms) : r.hostId # SYSTEM => conn[r.hostId] = "up"

\* a host has disconnected while another user room stays in the store
C2_Witness ==
    /\ last.ev = "disconnect"
    /\ \E k \in Emissions : IsNotice(last.out[k])
    /\ UserRooms(rooms) # {}

\* C3 (as stated): when the host of a user room disconnects, each listener
\* of the room gets exactly one system notice for it; afterwards the room id
\* is in no room-list and every join-room on it is refused.
C3_NoticeOnce ==
    (last'.ev = "disconnect" /\ nev' # nev) =>
        \A r \in UserRooms(rooms) :
            r.hostId = last'.from =>
                \A l \in r.listeners :
                    Cardinality({k \in DOMAIN last'.out :
                                    /\ IsNotice(last'.out[k])
                                    /\ last'.out[k].chan = r.id
                                    /\ l \in last'.out[k].to}) = 1

C3_AbsentAfter ==
    \A k \in Emissions :
        (last.out[k].ev = "room-list" /\ (last.ev = "disconnect" => k = Len(last.out))) =>
            \A i \in DOMAIN last.out[k].body : last.out[k].body[i].id \notin hostGone

C3_JoinRefused ==
    (last.ev = "join-room" /\ last.arg \in hostGone) => ~last.ack[1].success

C3_HostDisconnect == [][C3_NoticeOnce]_vars /\ [](C3_AbsentAfter /\ C3_JoinRefused)

\* C4: a join-room on an identifier that is not in the store is refused,
\* and changes neither the store nor the channels, and emits nothing.
C4_JoinUnknown ==
    [][(last'.ev = "join-room" /\ nev' # nev /\ ~MapHas(rooms, last'.arg)) =>
          /\ last'.ack = <<[success |-> FALSE, message |-> "Room not found or signal lost."]>>
          /\ rooms' = rooms
          /\ chans' = chans
          /\ last'.out = <<>>]_vars

\* a refused join on an identifier that once named a room
C4_Witness ==
    /\ last.ev = "join-room" /\ ~last.ack[1].success
    /\ last.arg \in allocated

\* C5: the four system rooms stay in the store, hosted by SYSTEM and
\* flagged isDemo, whatever events are processed.
C5_DemoRoomsStay ==
    \A d \in Range(DEMO_ROOMS) :
        /\ MapHas(rooms, d.id)
        /\ MapGet(rooms, d.id).hostId = SYSTEM
        /\ IsDemo(MapGet(rooms, d.id))
        /\ MapGet(rooms, d.id).streamUrl = d.streamUrl

\* a leave-room on a system room that leaves it without listeners
C5_Witness ==
    /\ last.ev = "leave-room" /\ last.arg \in DemoIds
    /\ MapGet(rooms, last.arg).listeners = {}
    /\ last.out # <<>>

\* C6: the disconnect of a participant that is neither host nor listener of
\* any room changes no room and emits nothing.
C6_DisconnectNoop ==
    [][(/\ last'.ev = "disconnect" /\ nev' # nev
        /\ \A r \in Range(rooms) : r.hostId # last'.from /\ last'.from \notin r.listeners) =>
          /\ rooms' = rooms
          /\ last'.out = <<>>]_vars

\* a lobby subscriber that is in no room has disconnected, rooms exist
C6_Witness ==
    /\ last.ev = "disconnect" /\ last.out = <<>>
    /\ UserRooms(rooms) # {}

\* C7 (as stated): no room's listener set contains the room's host.
C7_HostNotListener ==
    \A r \in Range(rooms) : r.hostId \notin r.listeners

\* C8 (as stated): create-room allocates an identifier that no room has or
\* ever had, and so replaces no record of the store.
C8_FreshId ==
    [][(last'.ev = "create-room" /\ nev' # nev) =>
          /\ last'.ack[1].id \notin allocated
          /\ ~MapHas(rooms, last'.ack[1].id)]_vars

\* C9 (as stated): a participant listens in at most one room, hosts at most
\* one room, and does not host one room while listening in another.
C9_OneRoom ==
    \A p \in Sockets :
        /\ Cardinality({r \in Range(rooms) : p \in r.listeners}) <= 1
        /\ Cardinality({r \in Range(rooms) : r.hostId = p}) <= 1
        /\ \A r1, r2 \in Range(rooms) :
              (r1.hostId = p /\ p \in r2.listeners) => r1.id = r2.id

\* C10: create-room by X registers an active room hosted by X with no
\* listeners, acknowledges with that room, and sends every lobby subscriber
\* a room-list that includes it.
C10_CreateRoom ==
    last.ev = "create-room" =>
        LET a == last.ack[1]
        IN  /\ MapHas(rooms, a.id)
            /\ MapGet(rooms, a.id).hostId = last.from
            /\ MapGet(rooms, a.id).listeners = {}
            /\ MapGet(rooms, a.id).status = "active"
            /\ a = WireRoom(MapGet(rooms, a.id))
            /\ \E k \in Emissions :
                  /\ last.out[k].ev = "room-list"
                  /\ last.out[k].to = LobbySubscribers
                  /\ \E i \in DOMAIN last.out[k].body :
                        /\ last.out[k].body[i].id = a.id
                        /\ last.out[k].body[i].hostId = last.from

\* a room created while another participant is subscribed to the lobby
C10_Witness ==
    /\ last.ev = "create-room"
    /\ \E q \in LobbySubscribers : q # last.from

\* C11: create-room never fails: whoever the requester and whatever the
\* name, the event ends with a room registered under the requester, named
\* as sent or by the placeholder, and acknowledged.
C11_Registered ==
    (last'.ev = "create-room" /\ nev' # nev) =>
        /\ Len(last'.ack) = 1
        /\ MapHas(rooms', last'.ack[1].id)
        /\ LET r == MapGet(rooms', last'.ack[1].id)
           IN  /\ r.hostId = last'.from
               /\ r.name = (IF last'.arg = "" THEN "Signal " \o r.id ELSE last'.arg)
               /\ r.name # ""
               /\ last'.ack[1].name = r.name
               /\ last'.ack[1].hostId = r.hostId

C11_CreateNeverFails == [][C11_Registered]_vars

\* a nameless create-room by a participant that already hosts another room
C11_Witness ==
    /\ last.ev = "create-room" /\ last.arg = ""
    /\ Cardinality({r \in Range(rooms) : r.hostId = last.from}) = 2

\* C12: a join-room by Y on a room of the store adds Y to its listener set,
\* acknowledges success with the listener count after the add, and sends
\* user-joined {userId: Y} once, to the room's host and to nobody else.
C12_JoinExisting ==
    [][(last'.ev = "join-room" /\ nev' # nev /\ MapHas(rooms, last'.arg)) =>
          LET old == MapGet(rooms, last'.arg)
              Y == last'.from
              joined == {k \in DOMAIN last'.out : last'.out[k].ev = "user-joined"}
          IN  /\ MapHas(rooms', last'.arg)
              /\ MapGet(rooms', last'.arg).listeners = old.listeners \cup {Y}
              /\ Len(last'.ack) = 1
              /\ last'.ack[1].success
              /\ last'.ack[1].room.id = last'.arg
              /\ last'.ack[1].room.listenerCount = Cardinality(old.listeners \cup {Y})
              /\ (old.listeners = {} => last'.ack[1].room.listenerCount = 1)
              /\ Cardinality(joined) = 1
              /\ \A k \in joined :
                    /\ last'.out[k].body = [userId |-> Y]
                    /\ last'.out[k].to \subseteq {old.hostId}
                    /\ (old.hostId # SYSTEM => last'.out[k].to = {old.hostId})]_vars

\* the first listener has joined another participant's room
C12_Witness ==
    /\ last.ev = "join-room" /\ last.ack[1].success
    /\ last.ack[1].room.listenerCount = 1
    /\ last.ack[1].room.hostId \in Sockets \ {last.from}
    /\ \E k \in Emissions : last.out[k].ev = "user-joined" /\ last.out[k].to # {}

\* the rooms a leave-room or disconnect step applies to
LeftRooms(rs, e) ==
    IF e.ev = "leave-room" THEN {r \in Range(rs) : r.id = e.arg}
    ELSE IF e.ev = "disconnect" THEN Range(rs)
    ELSE {}

\* C16 (as stated): when a listener leaves a room, by leave-room or by
\* disconnect, it is removed from the listener set, the room stays with its
\* host, and user-left with the leaver's id reaches every remaining member
\* and not the leaver.
C16_ListenerLeaves ==
    [][(nev' # nev) =>
          \A r \in LeftRooms(rooms, last') :
              last'.from \in r.listeners =>
                  /\ MapHas(rooms', r.id)
                  /\ MapGet(rooms', r.id).hostId = r.hostId
                  /\ MapGet(rooms', r.id).listeners = r.listeners \ {last'.from}
                  /\ \E k \in DOMAIN last'.out :
                        /\ last'.out[k].ev = "user-left"
                        /\ last'.out[k].chan = r.id
                        /\ last'.out[k].body = [userId |-> last'.from]
                        /\ (({r.hostId} \cup r.listeners) \cap Sockets) \ {last'.from}
                               \subseteq last'.out[k].to
                        /\ last'.from \notin last'.out[k].to]_vars

\* C17 (as stated): a leave-room on a room that is not in the store, or by
\* a requester that is neither its host nor one of its listeners, leaves the
\* store unchanged and delivers no user-left and no new-message.
C17_LeaveNoop ==
    [][(/\ last'.ev = "leave-room" /\ nev' # nev
        /\ \A r \in LeftRooms(rooms, last') :
              r.hostId # last'.from /\ last'.from \notin r.listeners) =>
          /\ rooms' = rooms
          /\ \A k \in DOMAIN last'.out :
                last'.out[k].ev \in {"user-left", "new-message"} => last'.out[k].to = {}]_vars

\* C18 (as stated): every leave-room event sends a room-list to the lobby
\* subscribers, in all cases.
C18_AlwaysRepublish ==
    last.ev = "leave-room" =>
        \E k \in Emissions : last.out[k].ev = "room-list" /\ last.out[k].to = LobbySubscribers

\* C18 (amended): every leave-room on a room that is in the store ends by
\* sending the current room list to the lobby subscribers, whoever sends
\* it; a leave-room on an unknown room sends nothing.
C18_RepublishIfRoom ==
    [][(last'.ev = "leave-room" /\ nev' # nev) =>
          IF MapHas(rooms, last'.arg)
          THEN /\ last'.out # <<>>
               /\ last'.out[Len(last'.out)].ev = "room-list"
               /\ last'.out[Len(last'.out)].chan = LOBBY
               /\ last'.out[Len(last'.out)].to = LobbySubscribers'
               /\ last'.out[Len(last'.out)].body = RoomList(rooms')
          ELSE last'.out = <<>>]_vars

\* a listener has left a user room while somebody is subscribed to the lobby
C18_Witness ==
    /\ last.ev = "leave-room" /\ last.arg \notin DemoIds
    /\ MapHas(rooms, last.arg)
    /\ LobbySubscribers # {}
    /\ \E k \in Emissions : last.out[k].ev = "user-left"

\* C19: a leave-room by the host of a user room emits the notice to the
\* room's channel, listeners included, while the room is still in the store
\* and then drops the room; in a leave-room the notice is emitted if and
\* only if a room is dropped.
C19_HostLeaveAtomic ==
    [][(last'.ev = "leave-room" /\ nev' # nev) =>
          LET notices == {k \in DOMAIN last'.out : IsNotice(last'.out[k])}
              hosted == {r \in LeftRooms(rooms, last') : ~IsDemo(r) /\ r.hostId = last'.from}
          IN  /\ (notices # {}) <=> (Keys(rooms') # Keys(rooms))
              /\ Keys(rooms) \ Keys(rooms') = {r.id : r \in hosted}
              /\ Cardinality(notices) = Cardinality(hosted)
              /\ \A r \in hosted : \A k \in notices :
                    /\ last'.out[k].chan = r.id
                    /\ r \in Range(last'.at[k])
                    /\ r.listeners \subseteq last'.out[k].to
                    /\ \E j \in DOMAIN last'.out :
                          /\ j > k
                          /\ last'.out[j].ev = "room-list"
                          /\ ~MapHas(last'.at[j], r.id)]_vars

\* a host has left its room explicitly while somebody else was listening
C19_Witness ==
    /\ last.ev = "leave-room"
    /\ \E k \in Emissions : IsNotice(last.out[k]) /\ last.out[k].to \ {last.from} # {}

\* C20: after every event that changes the store, the last thing sent is a
\* room-list to every current lobby subscriber that holds the snapshot of
\* every room of the store, once each, in insertion order.
C20_RepublishOnChange ==
    [][(rooms' # rooms) =>
          /\ last'.out # <<>>
          /\ LET e == last'.out[Len(last'.out)]
             IN  /\ e.ev = "room-list"
                 /\ e.to = LobbySubscribers'
                 /\ e.body = [i \in 1..Len(rooms') |-> Snapshot(rooms'[i])]
                 /\ Cardinality({e.body[i].id : i \in DOMAIN e.body}) = Len(e.body)
                 /\ DemoIds \subseteq {e.body[i].id : i \in DOMAIN e.body}]_vars

\* a room was destroyed and the shorter list went to a lobby subscriber
C20_Witness ==
    /\ last.ev \in {"leave-room", "disconnect"}
    /\ \E k \in Emissions : IsNotice(last.out[k])
    /\ last.out[Len(last.out)].ev = "room-list"
    /\ last.out[Len(last.out)].to # {}

Connected == {q \in Sockets : conn[q] = "up"}

\* C13: a webrtc-signal from X to a connected participant Y is delivered to
\* Y alone, once, with the type and payload as sent and senderId = X,
\* whatever senderId the envelope or the payload carries.
C13_SignalDelivered ==
    [][(/\ last'.ev = "webrtc-signal" /\ nev' # nev
        /\ last'.arg.targetUserId \in Connected) =>
          last'.out = <<Emit("webrtc-signal", last'.arg.targetUserId,
                             {last'.arg.targetUserId},
                             [type |-> last'.arg.type, payload |-> last'.arg.payload,
                              senderId |-> last'.from])>>]_vars

\* a candidate with a forged senderId has been relayed to another participant
C13_Witness ==
    /\ last.ev = "webrtc-signal"
    /\ last.arg.type = "candidate"
    /\ "senderId" \in DOMAIN last.arg
    /\ last.arg.targetUserId \in Connected \ {last.from}
    /\ last.out[1].to = {last.arg.targetUserId}

\* C14 (as stated): a webrtc-signal whose targetUserId is not the id of a
\* connected participant is delivered to nobody, and the store and the
\* channels are unchanged.
C14_SignalDropped ==
    [][(/\ last'.ev = "webrtc-signal" /\ nev' # nev
        /\ last'.arg.targetUserId \notin Connected) =>
          /\ \A k \in DOMAIN last'.out : last'.out[k].to = {}
          /\ rooms' = rooms
          /\ chans' = chans]_vars

\* C15: a send-message from the host or a listener of a room of the store
\* is emitted once as new-message, reaches the room's host and every
\* listener, the sender included, and carries the sender's id and the text.
C15_ChatFanOut ==
    [][(/\ last'.ev = "send-message" /\ nev' # nev
        /\ MapHas(rooms, last'.arg.roomId)
        /\ last'.from \in {MapGet(rooms, last'.arg.roomId).hostId}
                             \cup MapGet(rooms, last'.arg.roomId).listeners) =>
          LET room == MapGet(rooms, last'.arg.roomId)
          IN  /\ Len(last'.out) = 1
              /\ last'.out[1].ev = "new-message"
              /\ last'.out[1].body.userId = last'.from
              /\ last'.out[1].body.userId # SYSTEM
              /\ last'.out[1].body.text = last'.arg.text
              /\ "system" \notin DOMAIN last'.out[1].body
              /\ (({room.hostId} \cup room.listeners) \cap Sockets) \subseteq last'.out[1].to
              /\ last'.from \in last'.out[1].to]_vars

\* a listener has sent a message in a room hosted by another participant
C15_Witness ==
    /\ last.ev = "send-message"
    /\ MapHas(rooms, last.arg.roomId)
    /\ last.from \in MapGet(rooms, last.arg.roomId).listeners
    /\ MapGet(rooms, last.arg.roomId).hostId \in Sockets \ {last.from}
    /\ {last.from, MapGet(rooms, last.arg.roomId).hostId} \subseteq last.out[1].to

\* C21: join-lobby puts the requester in the lobby channel (again, if it is
\* there already), changes nothing else, and sends the requester alone the
\* list of the rooms of the store; a subscriber stays subscribed while it is
\* connected, and every room-list sent to the lobby reaches every subscriber.
C21_Subscribes ==
    (last'.ev = "join-lobby" /\ nev' # nev) =>
        /\ chans' = [chans EXCEPT ![last'.from] = @ \cup {LOBBY}]
        /\ rooms' = rooms
        /\ last'.out = <<Emit("room-list", last'.from, {last'.from}, RoomList(rooms))>>
        /\ Len(last'.out[1].body) = Len(rooms)

C21_StaysSubscribed ==
    \A q \in Sockets : (LOBBY \in chans[q] /\ conn'[q] = "up") => LOBBY \in chans'[q]

C21_UpdatesReachSubscribers ==
    \A k \in Emissions :
        (last.out[k].ev = "room-list" /\ last.out[k].chan = LOBBY) =>
            last.out[k].to = LobbySubscribers

C21_JoinLobby ==
    [][C21_Subscribes /\ C21_StaysSubscribed]_vars /\ []C21_UpdatesReachSubscribers

\* a join-lobby that lists a user room, sent while another participant is
\* subscribed
C21_Witness ==
    /\ last.ev = "join-lobby"
    /\ \E i \in DOMAIN last.out[1].body : last.out[1].body[i].id \notin DemoIds
    /\ LobbySubscribers \ {last.from} # {}

PublicFields == {"id", "name", "hostId", "listenerCount", "createdAt", "status"}
IsPublicSnapshot(s) ==
    DOMAIN s = IF "isDemo" \in DOMAIN s \/ "streamUrl" \in DOMAIN s
               THEN PublicFields \cup {"isDemo", "streamUrl"}
               ELSE PublicFields

\* C22: every snapshot in a room-list or in a join-room acknowledgment has
\* the fields id, name, hostId, listenerCount, createdAt and status, plus
\* isDemo and streamUrl on the system rooms and only there, and never the
\* listener set.
C22_SnapshotFields ==
    /\ \A k \in Emissions :
          last.out[k].ev = "room-list" =>
             \A i \in DOMAIN last.out[k].body :
                /\ IsPublicSnapshot(last.out[k].body[i])
                /\ ("isDemo" \in DOMAIN last.out[k].body[i]) <=> (last.out[k].body[i].id \in DemoIds)
    /\ (last.ev = "join-room" /\ last.ack[1].success) =>
          /\ IsPublicSnapshot(last.ack[1].room)
          /\ ("isDemo" \in DOMAIN last.ack[1].room) <=> (last.arg \in DemoIds)

\* a join on a user room with listeners, acknowledged and listed to the lobby
C22_Witness ==
    /\ last.ev = "join-room" /\ last.ack[1].success
    /\ last.arg \notin DemoIds
    /\ MapGet(rooms, last.arg).listeners # {}
    /\ \E k \in Emissions : last.out[k].ev = "room-list" /\ last.out[k].to # {}

\* C27: a join-room and the disconnect of the room's host, processed one
\* after the other, end in one of two ways: join first, the joiner is
\* registered and then gets the notice while the room is dropped; disconnect
\* first, the join is refused and changes nothing.  A join is acknowledged
\* with success exactly when the joiner is a listener of a room of the store.
C27_JoinThenDisconnect ==
    (/\ last.ev = "join-room" /\ last.ack[1].success
     /\ last'.ev = "disconnect" /\ nev' # nev
     /\ last'.from = MapGet(rooms, last.arg).hostId
     /\ last.from # last'.from) =>
        /\ last.from \in MapGet(rooms, last.arg).listeners
        /\ ~MapHas(rooms', last.arg)
        /\ Cardinality({k \in DOMAIN last'.out :
                           /\ IsNotice(last'.out[k])
                           /\ last'.out[k].chan = last.arg
                           /\ last.from \in last'.out[k].to}) = 1

C27_DisconnectThenJoin ==
    (/\ last.ev = "disconnect"
     /\ last'.ev = "join-room" /\ nev' # nev
     /\ \E k \in Emissions : IsNotice(last.out[k]) /\ last.out[k].chan = last'.arg) =>
        /\ last'.ack = <<[success |-> FALSE, message |-> "Room not found or signal lost."]>>
        /\ rooms' = rooms
        /\ chans' = chans
        /\ last'.out = <<>>

C27_Registered ==
    last.ev = "join-room" =>
        (last.ack[1].success <=>
            (MapHas(rooms, last.arg) /\ last.from \in MapGet(rooms, last.arg).listeners))

C27_JoinRace ==
    [][C27_JoinThenDisconnect /\ C27_DisconnectThenJoin]_vars /\ []C27_Registered

\* the join came first: the host's disconnect has sent the notice to the
\* participant that had just joined
C27_Witness ==
    /\ last.ev = "disconnect"
    /\ nev = 5
    /\ \E k \in Emissions :
          /\ IsNotice(last.out[k])
          /\ \E r \in Range(last.at[k]) :
                r.id = last.out[k].chan /\ r.listeners \cap last.out[k].to # {}

\* C28: two join-room events on the same room by distinct participants,
\* processed one after the other, leave both in the listener set, and each
\* acknowledgment counts the listeners after its own add: the second count
\* is the first plus one.
C28_JoinsLinearized ==
    [][(/\ last.ev = "join-room" /\ last.ack[1].success
        /\ last'.ev = "join-room" /\ nev' # nev
        /\ last'.arg = last.arg
        /\ last'.from # last.from
        /\ last'.from \notin MapGet(rooms, last.arg).listeners) =>
          /\ last.ack[1].room.listenerCount = Cardinality(MapGet(rooms, last.arg).listeners)
          /\ last'.ack[1].success
          /\ last'.ack[1].room.listenerCount = last.ack[1].room.listenerCount + 1
          /\ MapGet(rooms', last.arg).listeners =
                MapGet(rooms, last.arg).listeners \cup {last'.from}
          /\ {last.from, last'.from} \subseteq MapGet(rooms', last.arg).listeners]_vars

\* the second of two joins in a row on a room that had no listener
C28_Witness ==
    /\ last.ev = "join-room" /\ last.ack[1].success
    /\ last.ack[1].room.listenerCount = 2
    /\ nev = 4

\* C30: the disconnect of a participant drops every user room it hosts and
\* takes it out of the listener set of every other room, whatever number of
\* rooms it is tied to; afterwards it is host or listener of no room.
C30_ScanIsDefensive ==
    [][(last'.ev = "disconnect" /\ nev' # nev) =>
          LET p == last'.from
              hosted == {r \in UserRooms(rooms) : r.hostId = p}
          IN  /\ \A r \in Range(rooms') : r.hostId # p /\ p \notin r.listeners
              /\ Keys(rooms) \ Keys(rooms') = {r.id : r \in hosted}
              /\ Keys(rooms') \subseteq Keys(rooms)
              /\ \A r \in Range(rooms) \ hosted :
                    /\ MapGet(rooms', r.id).hostId = r.hostId
                    /\ MapGet(rooms', r.id).listeners = r.listeners \ {p}]_vars

\* the disconnect of a participant that hosted two rooms and listened in a
\* third
C30_Witness ==
    /\ last.ev = "disconnect"
    /\ Cardinality({k \in Emissions : IsNotice(last.out[k])}) = 2
    /\ \E k \in Emissions : last.out[k].ev = "user-left"

\* C23 (as stated): a host-start-stream sent by the host of a room of the
\* store is delivered once, to the listeners of that room other than the
\* sender, and to nobody else.
C23_StartReachesListeners ==
    [][(/\ last'.ev = "host-start-stream" /\ nev' # nev
        /\ MapHas(rooms, last'.arg.roomId)
        /\ MapGet(rooms, last'.arg.roomId).hostId = last'.from) =>
          /\ Len(last'.out) = 1
          /\ last'.out[1].ev = "host-start-stream"
          /\ last'.out[1].to = MapGet(rooms, last'.arg.roomId).listeners \ {last'.from}]_vars

\* C24: a listener-request-connection from L on a room of the store is
\* delivered once, as {listenerId: L}, to the room's host and to nobody
\* else; on a system room or an unknown room nothing is delivered; the
\* store and the channels are unchanged.
C24_RequestReachesHost ==
    [][(last'.ev = "listener-request-connection" /\ nev' # nev) =>
          /\ rooms' = rooms /\ chans' = chans
          /\ Len(last'.ack) = 0
          /\ IF MapHas(rooms, last'.arg.roomId)
             THEN LET host == MapGet(rooms, last'.arg.roomId).hostId
                  IN  /\ Len(last'.out) = 1
                      /\ last'.out[1].ev = "listener-request-connection"
                      /\ last'.out[1].body = [listenerId |-> last'.from]
                      /\ last'.out[1].to = {host} \cap Sockets
                      /\ (host = SYSTEM => last'.out[1].to = {})
             ELSE last'.out = <<>>]_vars

\* a listener's request has reached the host of its room, another participant
C24_Witness ==
    /\ last.ev = "listener-request-connection"
    /\ MapHas(rooms, last.arg.roomId)
    /\ last.from \in MapGet(rooms, last.arg.roomId).listeners
    /\ last.out[1].to = {MapGet(rooms, last.arg.roomId).hostId}
    /\ last.from \notin last.out[1].to

\* C25: a check-stream-status on a room of the store is forwarded to the
\* room's host with the requester's id; a stream-status-reply that names a
\* participant and says isStreaming delivers host-start-stream to that
\* participant alone, and one that says not streaming delivers nothing; the
\* store and the channels are unchanged by both, and no room record has a
\* field that says whether it is streaming.
C25_CheckForwarded ==
    (last'.ev = "check-stream-status" /\ nev' # nev) =>
        /\ rooms' = rooms /\ chans' = chans
        /\ IF MapHas(rooms, last'.arg.roomId)
           THEN LET host == MapGet(rooms, last'.arg.roomId).hostId
                IN  /\ Len(last'.out) = 1
                    /\ last'.out[1].ev = "check-stream-status"
                    /\ last'.out[1].body = [requesterId |-> last'.from]
                    /\ last'.out[1].to = {host} \cap Sockets
           ELSE last'.out = <<>>

C25_ReplyForwarded ==
    (last'.ev = "stream-status-reply" /\ nev' # nev) =>
        /\ rooms' = rooms /\ chans' = chans
        /\ (~last'.arg.isStreaming => last'.out = <<>>)
        /\ (last'.arg.isStreaming /\ last'.arg.requesterId \in Sockets) =>
              /\ Len(last'.out) = 1
              /\ last'.out[1].ev = "host-start-stream"
              /\ last'.out[1].to = {last'.arg.requesterId} \cap Connected

C25_NoStreamingField ==
    \A r \in Range(rooms) :
        /\ DOMAIN r \subseteq {"id", "name", "hostId", "listeners", "createdAt",
                               "status", "isDemo", "streamUrl"}
        /\ r.status = "active"

C25_StatusHandshake ==
    [][C25_CheckForwarded /\ C25_ReplyForwarded]_vars /\ []C25_NoStreamingField

\* the host's reply has delivered host-start-stream to a listener of its room
C25_Witness ==
    /\ last.ev = "stream-status-reply"
    /\ last.arg.isStreaming
    /\ last.arg.requesterId # last.from
    /\ last.out[1].to = {last.arg.requesterId}
    /\ \E r \in Range(rooms) : r.hostId = last.from /\ last.arg.requesterId \in r.listeners

\* C29 (as stated): an event without its callback or without its payload
\* object raises no fault, leaves the store and the channels as they were
\* and delivers nothing.
C29_MalformedIgnored ==
    [][(nev' # nev /\ "wire" \in DOMAIN last') =>
          /\ "fault" \notin DOMAIN last'
          /\ rooms' = rooms
          /\ chans' = chans
          /\ last'.out = <<>>]_vars

\* C26 (as stated): once the listener is in the listener set of the host's
\* room and the host has a captured stream, in either order, the server
\* eventually relays an offer from the host to the listener.
C26_HandshakeConverges ==
    (/\ client[Host].stream
     /\ \E r \in UserRooms(rooms) : r.hostId = Host /\ Listener \in r.listeners)
        ~> (<<Host, Listener>> \in offered)

\* C31 (as stated): whatever targetUserId a webrtc-signal carries, a room
\* id and 'lobby' included, the signal is emitted once and reaches at most
\* one participant, the one whose connection id is targetUserId.
C31_OneRecipient ==
    [][(last'.ev = "webrtc-signal" /\ nev' # nev) =>
          /\ Len(last'.out) = 1
          /\ Cardinality(last'.out[1].to) <= 1
          /\ last'.out[1].to \subseteq {last'.arg.targetUserId}]_vars

\* C34 (as stated): the new-message of a send-message {roomId, text} reaches
\* only the host and the listeners of the room of the store with that id,
\* and nobody when the store has no such room.
C34_ChatMembersOnly ==
    [][(last'.ev = "send-message" /\ nev' # nev) =>
          \A k \in DOMAIN last'.out :
              last'.out[k].to \subseteq
                  (IF MapHas(rooms, last'.arg.roomId)
                   THEN {MapGet(rooms, last'.arg.roomId).hostId}
                            \cup MapGet(rooms, last'.arg.roomId).listeners
                   ELSE {})]_vars

\* C35 (as stated): two new-message events produced by send-message carry
\* distinct ids; here, any two produced one after the other.
C35_FreshMessageId ==
    [][(last.ev = "send-message" /\ last'.ev = "send-message" /\ nev' # nev) =>
          last'.out[1].body.id # last.out[1].body.id]_vars

\* C32: webrtc-signal, host-start-stream, listener-request-connection,
\* check-stream-status, stream-status-reply and send-message change neither
\* the store nor any channel membership, the lobby's included, and emit no
\* room-list.
C32_PureForwarders ==
    [][(last'.ev \in PayloadEvents /\ nev' # nev) =>
          /\ rooms' = rooms
          /\ chans' = chans
          /\ conn' = conn
          /\ {q \in Sockets : conn'[q] = "up" /\ LOBBY \in chans'[q]} = LobbySubscribers
          /\ \A k \in DOMAIN last'.out : last'.out[k].ev # "room-list"]_vars

\* a stream-status-reply that names the lobby channel has reached the lobby
\* subscribers while a user room is in the store
C32_Witness ==
    /\ last.ev = "stream-status-reply"
    /\ last.arg.requesterId = LOBBY
    /\ last.out # <<>> /\ last.out[1].to # {}
    /\ UserRooms(rooms) # {}

\* C33 (as stated): a user room leaves the store, or has its record
\* overwritten, only in a leave-room or disconnect of its own host.
C33_OnlyHostRemoves ==
    [][(nev' # nev) =>
          \A r \in UserRooms(rooms) :
              (\/ ~MapHas(rooms', r.id)
               \/ MapGet(rooms', r.id).hostId # r.hostId
               \/ (last'.ev = "create-room" /\ last'.ack[1].id = r.id)) =>
                  /\ last'.ev \in {"leave-room", "disconnect"}
                  /\ last'.from = r.hostId]_vars

\* C36 (as stated): the room acknowledged by create-room has the shape of a
\* snapshot: the public fields with listenerCount 0, and no listener set.
C36_AckIsSnapshot ==
    last.ev = "create-room" =>
        /\ "listeners" \notin DOMAIN last.ack[1]
        /\ IsPublicSnapshot(last.ack[1])
        /\ last.ack[1].listenerCount = 0

\* the room ids a channel can be named by
ChannelRoomIds == DemoIds \cup {RoomIdOf(t) : t \in Times}

\* C37 (as stated): the connected sockets in the channel named by a room id
\* are the host and the listeners of the room with that id, and nobody when
\* the store has no such room.
C37_ChannelsMatchStore ==
    \A id \in ChannelRoomIds :
        InChannel(conn, chans, id) =
            (IF MapHas(rooms, id)
             THEN ({MapGet(rooms, id).hostId} \cup MapGet(rooms, id).listeners) \cap Sockets
             ELSE {})

\* C38 (as stated): a host-start-stream is delivered, by a host-start-stream
\* or a stream-status-reply event, only to listeners of a room that the
\* sender of the event hosts.
C38_OnlyFromHost ==
    [][(last'.ev \in {"host-start-stream", "stream-status-reply"} /\ nev' # nev) =>
          \A k \in DOMAIN last'.out :
              last'.out[k].ev = "host-start-stream" =>
                  \A q \in last'.out[k].to :
                      \E r \in Range(rooms) :
                          r.hostId = last'.from /\ q \in r.listeners]_vars

\* C39 (as stated): when the host answers the user-joined of a listener's
\* join with a peer connection and an offer (it was streaming already), and
\* the listener presses no manual retry, the host creates no second peer
\* connection for that listener and overwrites no open connection in its
\* peer table.
C39_OnePeerPerJoin ==
    (/\ client[Listener].retries = 0
     /\ client[Host].made[Listener] # <<>>
     /\ client[Host].made[Listener][1] = "user-joined") =>
        /\ Len(client[Host].made[Listener]) <= 1
        /\ client[Host].leaked = {}

====
